---- MODULE Spec2Model ----
(***************************************************************************)
(* Model of src/app/page.tsx: the FileManagerPage component, its state     *)
(* hooks, the four asynchronous handlers (fetchFiles, handleUpload,        *)
(* handleDownload, handleDelete) and the backend they talk to.             *)
(*                                                                         *)
(* Every handler is an async function.  Its code up to the first await is  *)
(* one action (the "start"), and the code that runs when the awaited       *)
(* request resolves or rejects, through catch and finally, is a second     *)
(* action (the "settle").  Between the two the request sits in reqs, where *)
(* the backend may handle it.  Requests settle in any order.               *)
(***************************************************************************)
EXTENDS Naturals, Sequences, FiniteSets, TLC

(* ---------------------------------------------------------------------- *)
(* Bounds                                                                  *)
(* ---------------------------------------------------------------------- *)
MaxRequests == 3        \* requests issued in one behaviour
MaxInitial == 2         \* records stored before the page is opened
MaxStored == MaxInitial + 1     \* records the backend ever creates

(* ---------------------------------------------------------------------- *)
(* Values                                                                  *)
(* ---------------------------------------------------------------------- *)
Null == "null"

AllIds == <<"f1", "f2", "f3", "f4", "f5">>
FileNames == {"b.txt"}
Descriptions == {"", "memo"}

FileRecord(id, fileName) == [id |-> id, fileName |-> fileName]

\* the records stored before the page is opened: f1 .. fn
InitialStore(n) == [k \in 1..n |-> FileRecord(AllIds[k], "a.txt")]

\* user-facing messages (the literals of the source, abbreviated)
MsgListFailed == "list-failed"
MsgUnexpected == "unexpected-error"
MsgSelectFile == "select-a-file"
MsgUploadFailed == "upload-failed"
MsgUploadError == "upload-error"
MsgDownloadFailed(fileName) == fileName \o "-download-failed"
MsgDownloadError == "download-error"
MsgDeleteFailed == "delete-failed"
MsgDeleteError == "delete-error"

\* messages carried by errors the runtime throws
MsgFetchRejected == "Failed to fetch"
MsgJsonSyntax == "Unexpected token in JSON"
MsgBodyRead == "body stream error"
MsgDomFailure == "dom operation failed"

\* a thrown value: an Error object with a message, or some other value
ErrorObject(message) == [isError |-> TRUE, message |-> message]
NonErrorValue == [isError |-> FALSE, message |-> ""]

\* a variant that always shows the fixed text of the handler
ErrorText_Fixed(error, fallback) == fallback

\* error instanceof Error ? error.message : fallback
ErrorText(error, fallback) ==
    IF error.isError THEN error.message ELSE fallback

Ops == {"list", "upload", "download", "delete"}

\* how the awaited request ends, as the handler sees it
\*   ok        response.ok, body read
\*   status    a response with a non-2xx status
\*   rejected  fetch() rejects with a TypeError (network failure)
\*   thrown    fetch() rejects with a value that is not an Error
\*   body      reading the body rejects (json() / blob())
Outcomes == {"ok", "status", "rejected", "thrown", "body"}

\* the save-as trigger of handleDownload: which of its steps throws
Triggers == {"none", "append", "click", "remove"}

\* the two response shapes of the listing endpoint
Shapes == {"array", "wrapper"}

VARIABLES
    files, isLoading, isUploading, errorMessage, selectedFile, description,
    activeDownloadId, deletingId,
    mounted,        \* the mount effect has run
    reqs,           \* requests in flight, by request number
    calls,          \* per endpoint, how often it was invoked
    store,          \* the backend's records, in the backend's order
    minted,         \* how many record ids the backend has handed out
    newestListOk,   \* highest request number of a list applied to files
    objectUrls,     \* the browser's live object URLs (by download request)
    last,           \* the client step that led here (with the form it saw)
    prev,           \* files, flags and call counts before that step
    recentFailure,  \* message of the latest failure since the latest start
    fmt,            \* a byte count and what formatFileSize made of it
    lastList        \* how the list that settled last relates to the backend

client == <<files, isLoading, isUploading, errorMessage, selectedFile,
            description, activeDownloadId, deletingId>>
vars == <<files, isLoading, isUploading, errorMessage, selectedFile,
          description, activeDownloadId, deletingId, mounted, reqs, calls,
          store, minted, newestListOk, objectUrls, last, prev,
          recentFailure, fmt, lastList>>

ClientState ==
    [files |-> files, isLoading |-> isLoading, isUploading |-> isUploading,
     calls |-> calls]

TotalCalls ==
    calls["list"] + calls["upload"] + calls["download"] + calls["delete"]

\* a request as issued by fetch(); the backend fills in status and items
Request(op, fileId, fileName, parent) ==
    [op |-> op, stage |-> "sent", fileId |-> fileId, fileName |-> fileName,
     parent |-> parent, desc |-> "", ok |-> FALSE, items |-> <<>>,
     snap |-> <<>>, outdated |-> FALSE]

NoStep ==
    [op |-> "none", phase |-> "none", req |-> 0, outcome |-> "none",
     trigger |-> "none", shape |-> "none", fileId |-> Null,
     parent |-> 0, items |-> <<>>, snap |-> <<>>, acked |-> FALSE,
     stale |-> FALSE, urls |-> 0, revokes |-> 0, file |-> Null, desc |-> ""]

Step(op, phase, req) == [NoStep EXCEPT !.op = op, !.phase = phase, !.req = req]

\* no size has been formatted
NotFormatted ==
    [bytes |-> <<>>, index |-> 0, tenths |-> 0, unit |-> "", out |-> ""]

\* the page before its mount effect has run
InitPage ==
    /\ files = <<>>
    /\ isLoading = TRUE
    /\ isUploading = FALSE
    /\ errorMessage = Null
    /\ selectedFile = Null
    /\ description = ""
    /\ activeDownloadId = Null
    /\ deletingId = Null
    /\ mounted = FALSE
    /\ reqs = <<>>
    /\ calls = [o \in Ops |-> 0]
    /\ store = InitialStore(MaxInitial) /\ minted = MaxInitial
    /\ newestListOk = 0
    /\ objectUrls = {}
    /\ last = NoStep
    /\ prev = [files |-> <<>>, isLoading |-> TRUE, isUploading |-> FALSE,
               calls |-> [o \in Ops |-> 0]]
    /\ recentFailure = Null
    /\ lastList = "none"

Init == InitPage /\ fmt = NotFormatted

(* ---------------------------------------------------------------------- *)
(* Pure helpers                                                            *)
(* ---------------------------------------------------------------------- *)
NewReq == TotalCalls + 1

\* requests that uploads in flight will still issue (the list after a 2xx)
Reserved ==
    Cardinality({r \in DOMAIN reqs :
                    reqs[r].op = "upload" /\ reqs[r].stage # "awaiting"})

\* the bound on the requests of one behaviour leaves room for n more
Room(n) == TotalCalls + Reserved + n <= MaxRequests

Without(rs, gone) == [k \in (DOMAIN rs) \ gone |-> rs[k]]

Ids(s) == {s[k].id : k \in 1..Len(s)}

\* the decoded body of the listing endpoint: a bare array (elems) or an
\* object with a files field
MakePayload(shape, items) ==
    IF shape = "array"
    THEN [hasFiles |-> FALSE, files |-> <<>>, elems |-> items]
    ELSE [hasFiles |-> TRUE, files |-> items, elems |-> <<>>]

\* payload.files ?? payload ?? []
PayloadFiles(payload) ==
    IF payload.hasFiles THEN payload.files ELSE payload.elems

(* ---------------------------------------------------------------------- *)
(* fetchFiles                                                              *)
(* ---------------------------------------------------------------------- *)

\* what the try block of fetchFiles throws, by outcome
FetchFilesError(outcome) ==
    CASE outcome = "status" -> ErrorObject(MsgListFailed)
      [] outcome = "rejected" -> ErrorObject(MsgFetchRejected)
      [] outcome = "body" -> ErrorObject(MsgJsonSyntax)
      [] OTHER -> NonErrorValue

\* a variant that keeps a request-generation token and drops a response older
\* than the one already applied
FetchFilesSetFiles_Guarded(previous, payload, req) ==
    IF req < newestListOk THEN previous ELSE PayloadFiles(payload)

\* a variant that appends the payload to what is held
FetchFilesSetFiles_Merging(previous, payload, req) ==
    previous \o PayloadFiles(payload)

\* setFiles(payload.files ?? payload ?? [])
FetchFilesSetFiles(previous, payload, req) ==
    PayloadFiles(payload)

\* a variant that empties the list when the request fails
FetchFilesFiles_Clearing(previous, payload, req, outcome) ==
    IF outcome = "ok"
    THEN FetchFilesSetFiles(previous, payload, req)
    ELSE <<>>

\* files after the GET ended: setFiles comes after the throw for a response
\* that is not ok and after the await of response.json()
FetchFilesFiles(previous, payload, req, outcome) ==
    IF outcome = "ok"
    THEN FetchFilesSetFiles(previous, payload, req)
    ELSE previous

\* a variant whose cleanup is skipped
FetchFilesFinally_Skipped == isLoading

\* finally { setIsLoading(false) }
FetchFilesFinally == FALSE

\* handleUpload: finally { setIsUploading(false) }
HandleUploadFinally == FALSE

\* a variant that keeps the error of an earlier operation on display
FetchFilesStart_NoClear(rs, parent) ==
    /\ isLoading' = TRUE
    /\ UNCHANGED errorMessage
    /\ reqs' = rs @@ (NewReq :> Request("list", Null, "", parent))
    /\ calls' = [calls EXCEPT !["list"] = @ + 1]

\* fetchFiles up to its await: the flags it sets and the request it issues.
\* parent is the upload request that awaits this list, 0 when there is none.
FetchFilesStart(rs, parent) ==
    /\ isLoading' = TRUE
    /\ errorMessage' = Null
    /\ reqs' = rs @@ (NewReq :> Request("list", Null, "", parent))
    /\ calls' = [calls EXCEPT !["list"] = @ + 1]

\* useEffect(() => { fetchFiles(); }, [fetchFiles])
Mount ==
    /\ ~mounted
    /\ Room(1)
    /\ mounted' = TRUE
    /\ FetchFilesStart(reqs, 0)
    /\ last' = Step("list", "start", NewReq)
    /\ prev' = ClientState
    /\ recentFailure' = Null
    /\ UNCHANGED <<files, isUploading, selectedFile, description,
                   activeDownloadId, deletingId, store, minted, newestListOk,
                   objectUrls, fmt, lastList>>

\* the refresh button: onClick={fetchFiles} disabled={isLoading}
Refresh ==
    /\ mounted
    /\ ~isLoading
    /\ Room(1)
    /\ FetchFilesStart(reqs, 0)
    /\ last' = Step("list", "start", NewReq)
    /\ prev' = ClientState
    /\ recentFailure' = Null
    /\ UNCHANGED <<files, isUploading, selectedFile, description,
                   activeDownloadId, deletingId, mounted, store, minted,
                   newestListOk, objectUrls, fmt, lastList>>

\* the outcomes a request in flight can have for its handler
CanEnd(rq, outcome) ==
    CASE outcome = "ok" -> rq.stage = "answered" /\ rq.ok
      [] outcome = "status" -> rq.stage = "answered" /\ ~rq.ok
      [] outcome = "body" ->
            rq.stage = "answered" /\ rq.ok /\ rq.op \in {"list", "download"}
      [] OTHER -> rq.stage \in {"sent", "answered"}

\* fetchFiles from the point where its request ends: the rest of the try
\* block, catch and finally.  When handleUpload awaits this call
\* (parent # 0) its own finally runs in the same turn of the event loop.
FetchFilesSettle(r, outcome, shape) ==
    /\ r \in DOMAIN reqs
    /\ reqs[r].op = "list"
    /\ CanEnd(reqs[r], outcome)
    /\ outcome # "ok" => shape = "array"
    /\ LET rq == reqs[r]
           payload == MakePayload(shape, rq.items)
       IN
        /\ files' = FetchFilesFiles(files, payload, r, outcome)
        /\ errorMessage' = IF outcome = "ok"
                           THEN errorMessage
                           ELSE ErrorText(FetchFilesError(outcome),
                                          MsgUnexpected)
        /\ isLoading' = FetchFilesFinally
        /\ isUploading' = IF rq.parent # 0
                          THEN HandleUploadFinally
                          ELSE isUploading
        /\ reqs' = Without(reqs, {r, rq.parent})
        /\ newestListOk' = IF outcome = "ok" /\ r > newestListOk
                           THEN r
                           ELSE newestListOk
        /\ last' = [Step("list", "settle", r) EXCEPT
                        !.outcome = outcome,
                        !.shape = IF outcome = "ok" THEN shape ELSE "none",
                        !.parent = rq.parent,
                        !.items = rq.items,
                        !.acked = rq.stage = "answered" /\ rq.ok,
                        !.stale = r < newestListOk,
                        !.file = selectedFile,
                        !.desc = description]
        /\ prev' = ClientState
        /\ lastList' = CASE outcome # "ok" -> "failed"
                          [] rq.outdated -> "outdated"
                          [] OTHER -> "current"
        /\ recentFailure' = IF outcome = "ok"
                            THEN recentFailure
                            ELSE errorMessage'
    /\ UNCHANGED <<selectedFile, description, activeDownloadId, deletingId,
                   mounted, calls, store, minted, objectUrls, fmt>>

(* ---------------------------------------------------------------------- *)
(* the upload form                                                         *)
(* ---------------------------------------------------------------------- *)

\* the file input: onChange sets selectedFile to the chosen file or to null
SelectFile(f) ==
    /\ mounted
    /\ f # selectedFile
    /\ selectedFile' = f
    /\ last' = Step("input", "edit", 0)
    /\ prev' = ClientState
    /\ UNCHANGED <<files, isLoading, isUploading, errorMessage, description,
                   activeDownloadId, deletingId, mounted, reqs, calls, store,
                   minted, newestListOk, objectUrls, recentFailure, fmt,
                   lastList>>

\* the description input: onChange sets description to the typed text
SetDescription(d) ==
    /\ mounted
    /\ d # description
    /\ description' = d
    /\ last' = Step("input", "edit", 0)
    /\ prev' = ClientState
    /\ UNCHANGED <<files, isLoading, isUploading, errorMessage, selectedFile,
                   activeDownloadId, deletingId, mounted, reqs, calls, store,
                   minted, newestListOk, objectUrls, recentFailure, fmt,
                   lastList>>

(* ---------------------------------------------------------------------- *)
(* handleUpload                                                            *)
(* ---------------------------------------------------------------------- *)

\* a variant without the validation
NoFileSelected_Never(f) == FALSE

\* if (!selectedFile)
NoFileSelected(f) == f = Null

\* what the try block of handleUpload throws, by outcome
HandleUploadError(outcome) ==
    CASE outcome = "status" -> ErrorObject(MsgUploadFailed)
      [] outcome = "rejected" -> ErrorObject(MsgFetchRejected)
      [] OTHER -> NonErrorValue

\* a variant that never clears the form
HandleUploadSelection_Kept(current, outcome) == current

\* a variant that clears the form before it looks at the response
HandleUploadSelection_Early(current, outcome) == Null

\* selectedFile after the POST ended: setSelectedFile(null) comes after the
\* throw for a response that is not ok
HandleUploadSelection(current, outcome) ==
    IF outcome = "ok" THEN Null ELSE current

\* description after the POST ended: setDescription("") likewise
HandleUploadDescription(current, outcome) ==
    IF outcome = "ok" THEN "" ELSE current

\* a variant that calls fetchFiles() without awaiting it, so that the
\* finally block runs at once
HandleUploadAwaiting_NotAwaited == FALSE

\* isUploading while handleUpload is suspended at await fetchFiles(): the
\* finally block has not run
HandleUploadAwaiting == isUploading

\* the submit button (disabled={isUploading}) up to the await of the POST
HandleUpload ==
    /\ mounted
    /\ ~isUploading
    /\ \/ /\ NoFileSelected(selectedFile)
          /\ errorMessage' = MsgSelectFile
          /\ last' = [Step("upload", "validate", 0) EXCEPT
                          !.file = selectedFile, !.desc = description]
          /\ recentFailure' = errorMessage'
          /\ UNCHANGED <<isUploading, reqs, calls>>
       \/ /\ ~NoFileSelected(selectedFile)
          /\ Room(2)
          /\ isUploading' = TRUE
          /\ errorMessage' = Null
          /\ recentFailure' = Null
          /\ reqs' = reqs @@ (NewReq :>
                        [Request("upload", Null, selectedFile, 0)
                            EXCEPT !.desc = description])
          /\ calls' = [calls EXCEPT !["upload"] = @ + 1]
          /\ last' = [Step("upload", "start", NewReq) EXCEPT
                          !.file = selectedFile, !.desc = description]
    /\ prev' = ClientState
    /\ UNCHANGED <<files, isLoading, selectedFile, description,
                   activeDownloadId, deletingId, mounted, store, minted,
                   newestListOk, objectUrls, fmt, lastList>>

\* handleUpload from the point where the POST ends.  On a 2xx response it
\* clears the form and runs fetchFiles up to its await, then waits for it;
\* otherwise catch and finally run.
UploadSettle(r, outcome) ==
    /\ r \in DOMAIN reqs
    /\ reqs[r].op = "upload"
    /\ CanEnd(reqs[r], outcome)
    /\ selectedFile' = HandleUploadSelection(selectedFile, outcome)
    /\ description' = HandleUploadDescription(description, outcome)
    /\ IF outcome = "ok"
       THEN /\ FetchFilesStart([reqs EXCEPT ![r].stage = "awaiting"], r)
            /\ isUploading' = HandleUploadAwaiting
            /\ recentFailure' = Null
            /\ last' = [Step("upload", "posted", r) EXCEPT
                            !.outcome = outcome, !.acked = TRUE,
                            !.file = selectedFile, !.desc = description]
       ELSE /\ errorMessage' = ErrorText(HandleUploadError(outcome),
                                         MsgUploadError)
            /\ recentFailure' = errorMessage'
            /\ isUploading' = HandleUploadFinally
            /\ reqs' = Without(reqs, {r})
            /\ last' = [Step("upload", "settle", r) EXCEPT
                            !.outcome = outcome,
                            !.acked = reqs[r].stage = "answered" /\ reqs[r].ok,
                            !.file = selectedFile, !.desc = description]
            /\ UNCHANGED <<isLoading, calls>>
    /\ prev' = ClientState
    /\ UNCHANGED <<files, activeDownloadId, deletingId, mounted, store,
                   minted, newestListOk, objectUrls, fmt, lastList>>

(* ---------------------------------------------------------------------- *)
(* handleDownload                                                          *)
(* ---------------------------------------------------------------------- *)

\* what the try block of handleDownload throws, by outcome
HandleDownloadError(outcome, fileName) ==
    CASE outcome = "status" -> ErrorObject(MsgDownloadFailed(fileName))
      [] outcome = "rejected" -> ErrorObject(MsgFetchRejected)
      [] outcome = "body" -> ErrorObject(MsgBodyRead)
      [] outcome = "ok" -> ErrorObject(MsgDomFailure)
      [] OTHER -> NonErrorValue

\* window.URL.revokeObjectURL(url) is the last statement of the try block:
\* it runs once when appendChild, click and removeChild all returned, and
\* not at all when one of them threw
RevokeCalls(trigger) == IF trigger = "none" THEN 1 ELSE 0

\* a variant whose cleanup is skipped
HandleDownloadFinally_Skipped == activeDownloadId

\* finally { setActiveDownloadId(null) }
HandleDownloadFinally == Null

\* a row's download button: onClick={() => handleDownload(file)},
\* disabled={activeDownloadId === file.id}; up to the await of the GET
HandleDownload(k) ==
    /\ mounted
    /\ k \in 1..Len(files)
    /\ activeDownloadId # files[k].id
    /\ activeDownloadId' = files[k].id
    /\ errorMessage' = Null
    /\ recentFailure' = Null
    /\ reqs' = reqs @@ (NewReq :>
                  Request("download", files[k].id, files[k].fileName, 0))
    /\ calls' = [calls EXCEPT !["download"] = @ + 1]
    /\ last' = [Step("download", "start", NewReq) EXCEPT
                    !.fileId = files[k].id,
                    !.file = selectedFile,
                    !.desc = description]
    /\ prev' = ClientState
    /\ UNCHANGED <<files, isLoading, isUploading, selectedFile, description,
                   deletingId, mounted, store, minted, newestListOk, objectUrls,
                   fmt, lastList>>

\* handleDownload from the point where the GET ends: the body is read, the
\* object URL is created, the save-as trigger runs (and may throw at one of
\* its three steps), the URL is revoked; catch and finally.
DownloadSettle(r, outcome, trigger) ==
    /\ r \in DOMAIN reqs
    /\ reqs[r].op = "download"
    /\ CanEnd(reqs[r], outcome)
    /\ outcome # "ok" => trigger = "none"
    /\ LET rq == reqs[r]
           failed == outcome # "ok" \/ trigger # "none"
       IN
        /\ objectUrls' = IF outcome = "ok" /\ RevokeCalls(trigger) = 0
                         THEN objectUrls \cup {r}
                         ELSE objectUrls
        /\ errorMessage' =
              IF failed
              THEN ErrorText(HandleDownloadError(outcome, rq.fileName),
                             MsgDownloadError)
              ELSE errorMessage
        /\ activeDownloadId' = HandleDownloadFinally
        /\ reqs' = Without(reqs, {r})
        /\ last' = [Step("download", "settle", r) EXCEPT
                        !.outcome = outcome,
                        !.trigger = trigger,
                        !.urls = IF outcome = "ok" THEN 1 ELSE 0,
                        !.revokes = IF outcome = "ok"
                                    THEN RevokeCalls(trigger)
                                    ELSE 0,
                        !.fileId = rq.fileId,
                        !.file = selectedFile,
                        !.desc = description,
                        !.acked = rq.stage = "answered" /\ rq.ok]
        /\ prev' = ClientState
        /\ recentFailure' = IF failed THEN errorMessage' ELSE recentFailure
    /\ UNCHANGED <<files, isLoading, isUploading, selectedFile, description,
                   deletingId, mounted, calls, store, minted, newestListOk,
                   fmt, lastList>>

(* ---------------------------------------------------------------------- *)
(* handleDelete                                                            *)
(* ---------------------------------------------------------------------- *)

\* what the try block of handleDelete throws, by outcome
HandleDeleteError(outcome) ==
    CASE outcome = "status" -> ErrorObject(MsgDeleteFailed)
      [] outcome = "rejected" -> ErrorObject(MsgFetchRejected)
      [] OTHER -> NonErrorValue

\* a variant that filters the list the handler saw when it was called
HandleDeleteSetFiles_Closure(previous, fileId, req) ==
    SelectSeq(reqs[req].snap, LAMBDA file : file.id # fileId)

\* a variant whose filter keeps the record it should drop
HandleDeleteSetFiles_Inverted(previous, fileId, req) ==
    SelectSeq(previous, LAMBDA file : file.id = fileId)

\* setFiles((previous) => previous.filter((file) => file.id !== fileId))
HandleDeleteSetFiles(previous, fileId, req) ==
    SelectSeq(previous, LAMBDA file : file.id # fileId)

\* a variant that removes the record whatever the response
HandleDeleteFiles_Optimistic(previous, fileId, req, outcome) ==
    HandleDeleteSetFiles(previous, fileId, req)

\* files after the DELETE ended: the filter comes after the throw for a
\* response that is not ok
HandleDeleteFiles(previous, fileId, req, outcome) ==
    IF outcome = "ok"
    THEN HandleDeleteSetFiles(previous, fileId, req)
    ELSE previous

\* a variant whose cleanup is skipped
HandleDeleteFinally_Skipped == deletingId

\* finally { setDeletingId(null) }
HandleDeleteFinally == Null

\* a row's delete button: onClick={() => handleDelete(file.id)},
\* disabled={deletingId === file.id}; up to the await of the DELETE
HandleDelete(k) ==
    /\ mounted
    /\ k \in 1..Len(files)
    /\ deletingId # files[k].id
    /\ Room(1)
    /\ deletingId' = files[k].id
    /\ errorMessage' = Null
    /\ recentFailure' = Null
    /\ reqs' = reqs @@ (NewReq :>
                  [Request("delete", files[k].id, files[k].fileName, 0)
                      EXCEPT !.snap = files])
    /\ calls' = [calls EXCEPT !["delete"] = @ + 1]
    /\ last' = [Step("delete", "start", NewReq) EXCEPT
                    !.fileId = files[k].id,
                    !.file = selectedFile,
                    !.desc = description]
    /\ prev' = ClientState
    /\ UNCHANGED <<files, isLoading, isUploading, selectedFile, description,
                   activeDownloadId, mounted, store, minted, newestListOk,
                   objectUrls, fmt, lastList>>

\* handleDelete from the point where the DELETE ends
DeleteSettle(r, outcome) ==
    /\ r \in DOMAIN reqs
    /\ reqs[r].op = "delete"
    /\ outcome # "body"
    /\ CanEnd(reqs[r], outcome)
    /\ LET rq == reqs[r] IN
        /\ files' = HandleDeleteFiles(files, rq.fileId, r, outcome)
        /\ errorMessage' = IF outcome = "ok"
                           THEN errorMessage
                           ELSE ErrorText(HandleDeleteError(outcome),
                                          MsgDeleteError)
        /\ deletingId' = HandleDeleteFinally
        /\ reqs' = Without(reqs, {r})
        /\ last' = [Step("delete", "settle", r) EXCEPT
                        !.outcome = outcome,
                        !.fileId = rq.fileId,
                        !.file = selectedFile,
                        !.desc = description,
                        !.snap = rq.snap,
                        !.acked = rq.stage = "answered" /\ rq.ok]
        /\ prev' = ClientState
        /\ recentFailure' = IF outcome = "ok"
                            THEN recentFailure
                            ELSE errorMessage'
    /\ UNCHANGED <<isLoading, isUploading, selectedFile, description,
                   activeDownloadId, mounted, calls, store, minted,
                   newestListOk, objectUrls, fmt, lastList>>

(* ---------------------------------------------------------------------- *)
(* the backend behind /api/files                                           *)
(* ---------------------------------------------------------------------- *)

\* the backend's records change when it accepts an upload or a delete
Changes(rq, accept) == accept /\ rq.op \in {"upload", "delete"}

\* The backend handles one request: it answers 2xx (accept) or not.  A list
\* is answered with the records stored at that moment; an upload stores a
\* new record in front; a download or delete of an id that is not stored is
\* never accepted; a delete removes the record.
Backend(r, accept) ==
    /\ r \in DOMAIN reqs
    /\ reqs[r].stage = "sent"
    /\ LET rq == reqs[r] IN
        /\ accept /\ rq.op = "upload" => minted < MaxStored
        /\ accept /\ rq.op \in {"download", "delete"} =>
                rq.fileId \in Ids(store)
        /\ reqs' = [q \in DOMAIN reqs |->
                        IF q = r
                        THEN [rq EXCEPT
                                !.stage = "answered",
                                !.ok = accept,
                                !.items = IF accept /\ rq.op = "list"
                                          THEN store
                                          ELSE <<>>]
                        ELSE [reqs[q] EXCEPT
                                !.outdated =
                                    \/ @
                                    \/ /\ Changes(rq, accept)
                                       /\ reqs[q].op = "list"
                                       /\ reqs[q].stage = "answered"]]
        /\ lastList' = IF Changes(rq, accept) /\ lastList = "current"
                       THEN "outdated"
                       ELSE lastList
        /\ store' =
              CASE accept /\ rq.op = "upload" ->
                      <<FileRecord(AllIds[minted + 1], rq.fileName)>> \o store
                [] accept /\ rq.op = "delete" ->
                      SelectSeq(store, LAMBDA file : file.id # rq.fileId)
                [] OTHER -> store
        /\ minted' = IF accept /\ rq.op = "upload"
                     THEN minted + 1
                     ELSE minted
    /\ UNCHANGED <<files, isLoading, isUploading, errorMessage, selectedFile,
                   description, activeDownloadId, deletingId, mounted, calls,
                   newestListOk, objectUrls, last, prev, recentFailure, fmt>>

(* ---------------------------------------------------------------------- *)
(* Specification                                                           *)
(* ---------------------------------------------------------------------- *)
Next ==
    \/ Mount
    \/ Refresh
    \/ \E f \in FileNames \cup {Null} : SelectFile(f)
    \/ \E d \in Descriptions : SetDescription(d)
    \/ HandleUpload
    \/ \E k \in 1..MaxStored : Room(1) /\ HandleDownload(k)
    \/ \E k \in 1..MaxStored : HandleDelete(k)
    \/ \E r \in 1..MaxRequests, accept \in BOOLEAN : Backend(r, accept)
    \/ \E r \in 1..MaxRequests, o \in Outcomes, s \in Shapes :
            FetchFilesSettle(r, o, s)
    \/ \E r \in 1..MaxRequests, o \in Outcomes : UploadSettle(r, o)
    \/ \E r \in 1..MaxRequests, o \in Outcomes, t \in Triggers :
            DownloadSettle(r, o, t)
    \/ \E r \in 1..MaxRequests, o \in Outcomes : DeleteSettle(r, o)

Spec == Init /\ [][Next]_vars

(* ---------------------------------------------------------------------- *)
(* Properties                                                              *)
(* ---------------------------------------------------------------------- *)

\* the step that led to this state ended an operation
ListSettled == last.op = "list" /\ last.phase = "settle"
UploadPosted == last.op = "upload" /\ last.phase = "posted"
UploadFailed == last.op = "upload" /\ last.phase = "settle"
UploadSettled == UploadFailed \/ (ListSettled /\ last.parent # 0)
DownloadSettled == last.op = "download" /\ last.phase = "settle"
DeleteSettled == last.op = "delete" /\ last.phase = "settle"

RECURSIVE RemoveId(_, _)
\* s without the records whose id is id, the others in their order
RemoveId(s, id) ==
    IF s = <<>> THEN <<>>
    ELSE IF Head(s).id = id
         THEN RemoveId(Tail(s), id)
         ELSE <<Head(s)>> \o RemoveId(Tail(s), id)

\* C1: the step in which a list, an upload, a download or a delete settles,
\* with success or with failure, leaves that operation's in-flight flag at
\* its idle value.
C1_FlagReset ==
    /\ ListSettled => isLoading = FALSE
    /\ UploadSettled => isUploading = FALSE
    /\ DownloadSettled => activeDownloadId = Null
    /\ DeleteSettled => deletingId = Null

\* an upload settles through the failure of the list it triggered: both
\* flags were set before the step
C1_Witness ==
    /\ ListSettled /\ last.parent # 0 /\ last.outcome # "ok"
    /\ prev.isLoading /\ prev.isUploading
    /\ ~isLoading /\ ~isUploading

\* C2: every object URL created by a download has been revoked exactly once
\* when that download has settled, also when the save-as trigger threw.
C2_UrlRevokedOnce ==
    /\ DownloadSettled /\ last.urls = 1 => last.revokes = 1
    /\ objectUrls = {}

\* C3: a successful list response makes files exactly the payload's records
\* in the payload's order, for either response shape, whatever was held.
C3_ListReplaces ==
    ListSettled /\ last.outcome = "ok" =>
        /\ files = last.items
        /\ last.shape \in Shapes

\* a wrapper-shaped payload replaces a non-empty list and drops a record
C3_Witness ==
    /\ ListSettled /\ last.outcome = "ok" /\ last.shape = "wrapper"
    /\ prev.files # <<>> /\ files # <<>>
    /\ ~(Ids(prev.files) \subseteq Ids(files))

\* C4: when the response of a list issued earlier is processed after the
\* response of a list issued later was applied (both were in flight
\* together and both succeeded), files is the payload of the response
\* processed last, the older one.
C4_LastResponseWins ==
    ListSettled /\ last.outcome = "ok" /\ last.stale =>
        /\ newestListOk > last.req
        /\ files = last.items

\* the older response carries a snapshot that differs from what the newer
\* one had put into files
C4_Witness ==
    /\ ListSettled /\ last.outcome = "ok" /\ last.stale
    /\ files # prev.files
    /\ files # store

\* C5: a successful delete(id) makes files the value it had when the response
\* was processed without the records of that id, the others in their order,
\* and issues no request; also when files changed during the flight.
C5_PerIdDelete ==
    DeleteSettled /\ last.outcome = "ok" =>
        /\ files = RemoveId(prev.files, last.fileId)
        /\ calls = prev.calls

\* files changed between the start of the delete and its response, and the
\* record is removed from the changed list
C5_Witness ==
    /\ DeleteSettled /\ last.outcome = "ok"
    /\ last.snap # prev.files
    /\ last.fileId \in Ids(prev.files)
    /\ last.fileId \notin Ids(files)

\* C6: a delete that ends with a non-2xx status or a request failure removes
\* nothing from files and sets errorMessage; a delete changes files only
\* after a 2xx answer of the backend.
C6_FailedDeleteKeepsFiles ==
    DeleteSettled =>
        /\ last.outcome # "ok" =>
                /\ files = prev.files
                /\ errorMessage \in
                      {MsgDeleteFailed, MsgFetchRejected, MsgDeleteError}
        /\ files # prev.files => last.outcome = "ok" /\ last.acked

\* the delete of a record that files still shows and the backend no longer
\* has is refused
C6_Witness ==
    /\ DeleteSettled /\ last.outcome = "status"
    /\ last.fileId \in Ids(files)
    /\ last.fileId \notin Ids(store)
    /\ errorMessage = MsgDeleteFailed

\* C7: the step that processes a 2xx answer to the upload POST clears
\* selectedFile and description and issues exactly one list request (and no
\* other request); it does not write files.
C7_PostUploadResync ==
    UploadPosted =>
        /\ selectedFile = Null
        /\ description = ""
        /\ calls = [prev.calls EXCEPT !["list"] = @ + 1]
        /\ Cardinality({r \in DOMAIN reqs :
                            /\ reqs[r].op = "list"
                            /\ reqs[r].parent = last.req}) = 1
        /\ files = prev.files

\* the form was filled in when the answer arrived and another list was
\* already in flight
C7_Witness ==
    /\ UploadPosted
    /\ last.file # Null /\ last.desc # ""
    /\ selectedFile = Null /\ description = ""
    /\ prev.calls["list"] = 1 /\ calls["list"] = 2

\* C8: a submit while selectedFile is null issues no request, sets the
\* validation message and leaves isUploading, files and description alone;
\* an upload POST is only ever issued with a file selected.
C8_UploadRequiresSelection ==
    /\ last.op = "upload" /\ last.phase = "validate" =>
            /\ last.file = Null
            /\ selectedFile = Null
            /\ calls = prev.calls
            /\ errorMessage = MsgSelectFile
            /\ isUploading = prev.isUploading
            /\ files = prev.files
            /\ description = last.desc
    /\ last.op = "upload" /\ last.phase = "start" => last.file # Null

\* a submit without a file, with a description typed and a list loaded
C8_Witness ==
    /\ last.op = "upload" /\ last.phase = "validate"
    /\ description # ""
    /\ files # <<>>

\* C9: an upload POST that ends with a non-2xx status or a request failure
\* sets errorMessage, leaves selectedFile and description as they are and
\* issues no request.
C9_UploadFailureKeepsSelection ==
    UploadFailed =>
        /\ last.outcome # "ok"
        /\ errorMessage \in {MsgUploadFailed, MsgFetchRejected, MsgUploadError}
        /\ selectedFile = last.file
        /\ description = last.desc
        /\ calls = prev.calls

\* a refused upload with the file and the description still in the form
C9_Witness ==
    /\ UploadFailed /\ last.outcome = "status"
    /\ selectedFile # Null /\ description # ""
    /\ errorMessage = MsgUploadFailed

\* C10 as stated: every failed list leaves files untouched and shows the one
\* fixed listing-failed message.
C10_ListFailureFixedMessage ==
    ListSettled /\ last.outcome # "ok" =>
        /\ files = prev.files
        /\ errorMessage = MsgListFailed

\* C10: every failed list leaves files untouched; errorMessage is the fixed
\* listing-failed message after a non-2xx status, the thrown error's own
\* message when the request or the reading of the body fails with an Error,
\* and the fixed unexpected-error message when the thrown value is not an
\* Error.
C10_ListFailure ==
    ListSettled /\ last.outcome # "ok" =>
        /\ files = prev.files
        /\ last.outcome = "status" => errorMessage = MsgListFailed
        /\ last.outcome = "rejected" => errorMessage = MsgFetchRejected
        /\ last.outcome = "body" => errorMessage = MsgJsonSyntax
        /\ last.outcome = "thrown" => errorMessage = MsgUnexpected

\* a refresh whose body cannot be parsed, with records on display
C10_Witness ==
    /\ ListSettled /\ last.outcome = "body"
    /\ files # <<>>
    /\ errorMessage = MsgJsonSyntax

\* C11 (single error slot): recentFailure follows the rule of the claim, not
\* the code: it becomes null at every start of a list, a download, a delete
\* or an upload with a file selected, it becomes the message of a failure
\* (the no-file validation included) when one happens, and no other step
\* touches it.  In every reachable state errorMessage equals it: null, or the
\* message of the most recent failure, and that failure came after the most
\* recent operation start; and the state right after a start shows no error.
C11_SingleErrorSlot ==
    /\ errorMessage = recentFailure
    /\ (last.phase = "start" \/ UploadPosted) => errorMessage = Null

\* a delete ended successfully while the validation error raised after its
\* start is still on display: a success does not write the slot
C11_Witness ==
    /\ DeleteSettled
    /\ last.outcome = "ok"
    /\ errorMessage = MsgSelectFile

\* requests of one endpoint in flight
InFlight(op) == {r \in DOMAIN reqs : reqs[r].op = op}

\* the newest request of the set rs is for the record with this id
NewestIsFor(rs, id) ==
    \E r \in rs : reqs[r].fileId = id /\ \A q \in rs : q <= r

\* C12 as stated (at most one outstanding request per row action type): at
\* most one download and at most one delete are in flight, and while one is
\* in flight activeDownloadId (deletingId) is the id of its record.
C12_OnePerActionType ==
    /\ Cardinality(InFlight("download")) <= 1
    /\ Cardinality(InFlight("delete")) <= 1
    /\ \A r \in InFlight("download") : activeDownloadId = reqs[r].fileId
    /\ \A r \in InFlight("delete") : deletingId = reqs[r].fileId

\* C12 (row action flags, amended): whenever activeDownloadId (deletingId)
\* is not null it is the record id of the newest download (delete) request
\* in flight; requests for other rows may be in flight beside it.
C12_FlagNamesNewest ==
    /\ activeDownloadId # Null =>
            NewestIsFor(InFlight("download"), activeDownloadId)
    /\ deletingId # Null => NewestIsFor(InFlight("delete"), deletingId)

\* two downloads of different rows are in flight and the flag names the
\* second
C12_Witness ==
    /\ Cardinality(InFlight("download")) = 2
    /\ activeDownloadId # Null
    /\ \E r \in InFlight("download") : reqs[r].fileId # activeDownloadId

(* ---------------------------------------------------------------------- *)
(* The rows' download buttons alone                                        *)
(* ---------------------------------------------------------------------- *)

\* requests of one behaviour when only the download buttons are clicked
MaxRowRequests == 4

\* the page is mounted, its list arrives, and the user clicks download
\* buttons; nothing else is clicked
NextRows ==
    \/ Mount
    \/ \E k \in 1..MaxStored :
            TotalCalls < MaxRowRequests /\ HandleDownload(k)
    \/ \E r \in 1..MaxRowRequests, accept \in BOOLEAN : Backend(r, accept)
    \/ \E r \in 1..MaxRowRequests, o \in Outcomes, s \in Shapes :
            FetchFilesSettle(r, o, s)
    \/ \E r \in 1..MaxRowRequests, o \in Outcomes, t \in Triggers :
            DownloadSettle(r, o, t)

SpecRows == Init /\ [][NextRows]_vars

\* C13 (per-id download gating): for every file id at most one download of
\* that id is in flight at any time.
C13_OneDownloadPerId ==
    \A r, q \in InFlight("download") :
        reqs[r].fileId = reqs[q].fileId => r = q

(* ---------------------------------------------------------------------- *)
(* Every request returns or fails                                          *)
(* ---------------------------------------------------------------------- *)

\* the handler that awaits request r resumes: with the response, or with the
\* rejection of the fetch
Settle(r) ==
    \/ \E o \in Outcomes, s \in Shapes : FetchFilesSettle(r, o, s)
    \/ \E o \in Outcomes : UploadSettle(r, o)
    \/ \E o \in Outcomes, t \in Triggers : DownloadSettle(r, o, t)
    \/ \E o \in Outcomes : DeleteSettle(r, o)

\* the promise of every fetch is eventually fulfilled or rejected, and the
\* event loop then runs the continuation that awaits it
FairSpec == Spec /\ \A r \in 1..MaxRequests : WF_vars(Settle(r))

\* every control of the page is enabled as far as the four flags decide
Idle ==
    /\ isLoading = FALSE
    /\ isUploading = FALSE
    /\ activeDownloadId = Null
    /\ deletingId = Null

\* C14 (return to idle): when every request eventually returns or fails,
\* every request that an operation issued eventually leaves the set of
\* requests in flight (its handler ran to its end, through success or
\* failure); and whenever the mounted page has no request in flight, the
\* four flags hold their idle values, which are exactly the conditions under
\* which the refresh, submit, download and delete controls are enabled,
\* whatever failed before.
C14_ReturnToIdle ==
    /\ [](mounted /\ reqs = <<>> => Idle)
    /\ \A r \in 1..MaxRequests :
            (r \in DOMAIN reqs) ~> (r \notin DOMAIN reqs)

\* nothing is in flight after an operation failed, and the failure is on
\* display
C14_Witness ==
    /\ mounted
    /\ reqs = <<>>
    /\ last.phase = "settle"
    /\ last.outcome \notin {"ok", "none"}
    /\ errorMessage # Null
    /\ Idle

(* ---------------------------------------------------------------------- *)
(* formatFileSize                                                          *)
(* ---------------------------------------------------------------------- *)
\* A byte count is held as its digits in base 1024, most significant first
\* and without a leading zero (<<0>> is zero), because the counts of
\* interest exceed the integers TLC can hold.

\* the 1024 of Math.log(1024) and of 1024 ** index
Base == 1024

\* longest byte count formatted, in digits of base 1024
MaxLimbs == 6

\* const units = ["B", "KB", "MB", "GB", "TB"]
Units == <<"B", "KB", "MB", "GB", "TB">>

\* digits the byte counts are built from
Digits == {0, 1, Base \div 2, Base - 1}

RECURSIVE ToLimbs(_)
\* the digits of a number TLC can hold
ToLimbs(n) ==
    IF n < Base THEN <<n>> ELSE ToLimbs(n \div Base) \o <<n % Base>>

RECURSIVE FromLimbs(_)
\* the number a short sequence of digits stands for
FromLimbs(limbs) ==
    IF limbs = <<>>
    THEN 0
    ELSE FromLimbs(SubSeq(limbs, 1, Len(limbs) - 1)) * Base
            + limbs[Len(limbs)]

\* byte counts whose rounding is of interest: 1.0498, 1.0508, 1.25 and
\* 1023.9502 in units of 1024
RoundingCases == {<<1, 51>>, <<1, 52>>, <<1, 256>>, <<Base - 1, 973>>}

\* the byte counts formatted
ByteCounts ==
    {<<0>>} \cup RoundingCases \cup
    UNION {{b \in [1..n -> Digits] : b[1] # 0} : n \in 1..MaxLimbs}

RECURSIVE TimesCarry(_, _, _)
\* limbs * m + carry, for a small m
TimesCarry(limbs, m, carry) ==
    IF limbs = <<>>
    THEN IF carry = 0 THEN <<>> ELSE ToLimbs(carry)
    ELSE LET v == limbs[Len(limbs)] * m + carry IN
         TimesCarry(SubSeq(limbs, 1, Len(limbs) - 1), m, v \div Base)
            \o <<v % Base>>

Times(limbs, m) == TimesCarry(limbs, m, 0)

\* how close to 1024^5 a byte count is for the quotient of the two rounded
\* logarithms to be 5 already (Math.log is implementation-approximated; the
\* quotient is 5 for 1024^5 - 3 and above with IEEE doubles)
FloatSlack == 8

\* byte counts just below 1024^5
JustBelowPeta(bytes) ==
    /\ Len(bytes) = Len(Units)
    /\ \A k \in 1..(Len(bytes) - 1) : bytes[k] = Base - 1
    /\ bytes[Len(bytes)] >= Base - FloatSlack

\* Math.floor(Math.log(sizeInBytes) / Math.log(1024)): the number of digits
\* less one, or possibly one more just below 1024^5
FloorLogBase(bytes) ==
    IF JustBelowPeta(bytes)
    THEN {Len(bytes) - 1, Len(bytes)}
    ELSE {Len(bytes) - 1}

\* a variant of toFixed that cuts the decimals off
ToFixedTenths_Truncating(bytes, index) ==
    LET p == Times(bytes, 10) IN
    FromLimbs(SubSeq(p, 1, Len(p) - index))

\* (sizeInBytes / 1024 ** index).toFixed(1), in tenths: the quotient is
\* exact in a double, and toFixed rounds its exact value, a tie upwards
ToFixedTenths(bytes, index) ==
    LET p == Times(bytes, 10)
        whole == FromLimbs(SubSeq(p, 1, Len(p) - index))
        fraction == IF index >= 1 /\ Len(p) >= index
                    THEN p[Len(p) - index + 1]
                    ELSE 0
    IN  IF fraction >= Base \div 2 THEN whole + 1 ELSE whole

\* units[index], undefined past the end of the array
UnitAt(index) ==
    IF index + 1 \in DOMAIN Units THEN Units[index + 1] ELSE "undefined"

\* `${size.toFixed(1)} ${units[index]}`
Template(tenths, unit) ==
    ToString(tenths \div 10) \o "." \o ToString(tenths % 10) \o " " \o unit

\* formatFileSize(sizeInBytes), with the index Math.floor returned
FormatFileSize(bytes, index) ==
    IF bytes = <<0>>
    THEN [NotFormatted EXCEPT !.bytes = bytes, !.out = "0 B"]
    ELSE [bytes |-> bytes, index |-> index,
          tenths |-> ToFixedTenths(bytes, index),
          unit |-> UnitAt(index),
          out |-> Template(ToFixedTenths(bytes, index), UnitAt(index))]

\* a byte count waits to be formatted
InitFormat ==
    /\ InitPage
    /\ fmt \in {[NotFormatted EXCEPT !.bytes = b] : b \in ByteCounts}

\* the page renders formatFileSize(file.size)
Render ==
    /\ fmt.out = ""
    /\ \E index \in FloorLogBase(fmt.bytes) :
            fmt' = FormatFileSize(fmt.bytes, index)
    /\ UNCHANGED <<files, isLoading, isUploading, errorMessage, selectedFile,
                   description, activeDownloadId, deletingId, mounted, reqs,
                   calls, store, minted, newestListOk, objectUrls, last,
                   prev, recentFailure, lastList>>

NextFormat == Render

SpecFormat == InitFormat /\ [][NextFormat]_vars

\* a < b, for digit sequences without leading zeros
Less(a, b) ==
    \/ Len(a) < Len(b)
    \/ /\ Len(a) = Len(b)
       /\ \E i \in 1..Len(a) :
            a[i] < b[i] /\ \A j \in 1..(i - 1) : a[j] = b[j]

AtMost(a, b) == a = b \/ Less(a, b)

\* limbs * 1024^k
Shift(limbs, k) == limbs \o [i \in 1..k |-> 0]

\* tenths / 10 is bytes / 1024^k rounded to one decimal:
\* (2 tenths - 1) 1024^k <= 20 bytes < (2 tenths + 1) 1024^k
RoundedToOneDecimal(bytes, k, tenths) ==
    /\ tenths >= 1
    /\ AtMost(Shift(ToLimbs(2 * tenths - 1), k), Times(bytes, 20))
    /\ Less(Times(bytes, 20), Shift(ToLimbs(2 * tenths + 1), k))

\* the two examples of the claim
FormatExamples ==
    /\ fmt.bytes = ToLimbs(1536) => fmt.out = "1.5 KB"
    /\ fmt.bytes = ToLimbs(1073741824) => fmt.out = "1.0 GB"

\* C15 as stated (size formatting): 0 gives "0 B"; every byte count n >= 1
\* is shown with the unit at index k, 1024^k <= n < 1024^(k+1), as n / 1024^k
\* rounded to one decimal; the unit is one of the five and the number shown
\* is below 1024; 1536 gives "1.5 KB" and 1073741824 gives "1.0 GB".
C15_SizeFormatting ==
    fmt.out # "" =>
        /\ fmt.bytes = <<0>> => fmt.out = "0 B"
        /\ fmt.bytes # <<0>> =>
            /\ fmt.index = Len(fmt.bytes) - 1
            /\ fmt.index + 1 \in DOMAIN Units
            /\ fmt.unit = Units[fmt.index + 1]
            /\ RoundedToOneDecimal(fmt.bytes, fmt.index, fmt.tenths)
            /\ fmt.tenths < 10 * Base
            /\ fmt.out = Template(fmt.tenths, fmt.unit)
        /\ FormatExamples

\* the largest byte count of the amended claim, 1024^5 - 1024
LargestFormatted ==
    [k \in 1..Len(Units) |-> IF k < Len(Units) THEN Base - 1 ELSE 0]

\* C15 (size formatting, amended): 0 gives "0 B"; every byte count n with
\* 1 <= n <= 1024^5 - 1024 is shown with the unit at index k,
\* 1024^k <= n < 1024^(k+1), as n / 1024^k rounded to one decimal; the unit
\* is one of the five and the number shown is at least 1.0 and at most
\* 1024.0; 1536 gives "1.5 KB" and 1073741824 gives "1.0 GB".
C15_SizeFormattingInRange ==
    fmt.out # "" =>
        /\ fmt.bytes = <<0>> => fmt.out = "0 B"
        /\ fmt.bytes # <<0>> /\ AtMost(fmt.bytes, LargestFormatted) =>
            /\ fmt.index = Len(fmt.bytes) - 1
            /\ fmt.index + 1 \in DOMAIN Units
            /\ fmt.unit = Units[fmt.index + 1]
            /\ RoundedToOneDecimal(fmt.bytes, fmt.index, fmt.tenths)
            /\ fmt.tenths >= 10
            /\ fmt.tenths <= 10 * Base
            /\ fmt.out = Template(fmt.tenths, fmt.unit)
        /\ FormatExamples

\* 1048575 bytes have been formatted as "1024.0 KB"
C15_Witness ==
    /\ fmt.bytes = <<Base - 1, Base - 1>>
    /\ fmt.out = "1024.0 KB"

\* the messages a failed list shows
ListFailureMessages ==
    {ErrorText(FetchFilesError(o), MsgUnexpected) : o \in Outcomes \ {"ok"}}

\* C16 (upload waits for its resync): while an upload is suspended at
\* await fetchFiles() the list it triggered is in flight and isUploading is
\* true; the step that settles this list, with success or failure, is the
\* one that sets isUploading to false, and it has set isLoading to false;
\* when this list failed, errorMessage shows the listing failure, not an
\* upload failure, and the step left selectedFile and description as they
\* were (cleared by the upload, unless the user has filled the form again).
C16_UploadAwaitsResync ==
    /\ \A r \in InFlight("upload") :
            reqs[r].stage = "awaiting" =>
                /\ isUploading
                /\ \E q \in InFlight("list") : reqs[q].parent = r
    /\ UploadPosted => isUploading /\ selectedFile = Null /\ description = ""
    /\ ListSettled /\ last.parent # 0 =>
            /\ prev.isUploading
            /\ ~isUploading
            /\ ~isLoading
            /\ selectedFile = last.file
            /\ description = last.desc
            /\ last.outcome # "ok" =>
                    /\ errorMessage =
                          ErrorText(FetchFilesError(last.outcome), MsgUnexpected)
                    /\ errorMessage \in ListFailureMessages
                    /\ errorMessage \notin {MsgUploadFailed, MsgUploadError}

\* the list that an upload triggered has failed; the form is still cleared
C16_Witness ==
    /\ ListSettled
    /\ last.parent # 0
    /\ last.outcome = "status"
    /\ errorMessage = MsgListFailed
    /\ selectedFile = Null
    /\ description = ""
    /\ ~isUploading

\* C17 (frame of files): files differs from what it was before the last
\* step of the page only when that step processed a successful list response
\* (files is the payload) or a successful delete response (files is the old
\* list without the id); every start, every failure, the upload's POST
\* response and every step of a download leave files as it was; the steps of
\* download and delete leave selectedFile and description as they were.
C17_FrameOfFiles ==
    /\ files # prev.files =>
            \/ ListSettled /\ last.outcome = "ok" /\ files = last.items
            \/ /\ DeleteSettled
               /\ last.outcome = "ok"
               /\ files = RemoveId(prev.files, last.fileId)
    /\ last.phase \in {"start", "validate", "posted"} => files = prev.files
    /\ last.outcome \notin {"ok", "none"} => files = prev.files
    /\ last.op = "download" => files = prev.files
    /\ last.op \in {"download", "delete"} =>
            selectedFile = last.file /\ description = last.desc

\* a download ended with a file selected, a description typed and files
\* listed: none of them changed
C17_Witness ==
    /\ DownloadSettled
    /\ last.outcome = "ok"
    /\ selectedFile # Null
    /\ description # ""
    /\ files # <<>>
    /\ files = prev.files

\* C18 (loading flag tracks the lists in flight): isLoading is true whenever
\* at least one list request is in flight.
C18_LoadingTracksLists == InFlight("list") # {} => isLoading

\* C19 as stated (quiescent consistency with the backend): whenever no
\* request is in flight and the list that settled last succeeded, the ids in
\* files are the ids stored at the backend.
C19_QuiescentConsistency ==
    reqs = <<>> /\ lastList \in {"current", "outdated"} =>
        Ids(files) = Ids(store)

\* C19 (quiescent consistency, amended): whenever no request is in flight,
\* the list that settled last succeeded, and the backend has accepted no
\* upload and no delete since it handled the request of that list, the ids
\* in files are the ids stored at the backend.
C19_ConsistentWhenCurrent ==
    reqs = <<>> /\ lastList = "current" => Ids(files) = Ids(store)

\* nothing is in flight, the backend's records are no longer the initial
\* ones, and files shows them
C19_Witness ==
    /\ reqs = <<>>
    /\ lastList = "current"
    /\ Ids(store) # Ids(InitialStore(MaxInitial))
    /\ Ids(files) = Ids(store)

====
